---- MODULE Spec2Model ----
(***************************************************************************)
(* Model of react-query-filters-manager: the useFilters hook, which keeps  *)
(* a filters object in step with the URL query, an external store and the  *)
(* request cache.                                                          *)
(*                                                                         *)
(* The repository ships the hook in three forms, which differ in how the   *)
(* URL is read and written:                                                *)
(*   "tsx"     src/src/filters_manager.tsx (and its build in part_000):    *)
(*             reads router.query, writes router.replace({pathname,query}) *)
(*   "service" src/unnamed/part_000 lines 1-172 (built as                  *)
(*             dist/*/filters_manager.service.js): reads and writes with   *)
(*             the query-string codec                                      *)
(*   "context" src/unnamed/part_001: as "tsx", with the router taken from  *)
(*             the context, an optional querySetter and a scroll flag      *)
(***************************************************************************)
EXTENDS Integers, Sequences, FiniteSets, TLC

(***************************************************************************)
(* JavaScript values.  A scalar or array value is a record with its type   *)
(* tag t, its text s (numbers are held by their decimal text, so that      *)
(* String(2) and "2" differ only in the tag) and, for arrays, its elements *)
(* a.  An object (a FilterSet, a parsed query) is a function from field    *)
(* names to such values, wrapped with k = "object"; Undefined is the       *)
(* absent object.                                                          *)
(***************************************************************************)
Null == [t |-> "null", s |-> "", a |-> <<>>]

Undef == [t |-> "undefined", s |-> "", a |-> <<>>]

Str(x) == [t |-> "string", s |-> x, a |-> <<>>]

Num(x) == [t |-> "number", s |-> x, a |-> <<>>]

Arr(xs) == [t |-> "array", s |-> "", a |-> xs]

Undefined == [k |-> "undefined", o |-> <<>>]

Obj(o) == [k |-> "object", o |-> o]

\* `x ?? y` and `!x` for an object-or-undefined value.
IsNullish(x) == x.k = "undefined"

Coalesce(x, y) == IF IsNullish(x) THEN y ELSE x

IsNullOrUndefined(v) == v.t \in {"null", "undefined"}

\* The field names the model uses, in the order object keys are listed.
FieldOrder == <<"page", "perPage", "sortBy", "sortDirection", "tags">>

IsKeyOf(o, k) == k \in DOMAIN o

RECURSIVE KeysFrom(_, _)
KeysFrom(o, order) ==
    IF order = <<>> THEN <<>>
    ELSE IF IsKeyOf(o, Head(order)) THEN <<Head(order)>> \o KeysFrom(o, Tail(order))
    ELSE KeysFrom(o, Tail(order))

Keys(o) == KeysFrom(o, FieldOrder)

Restrict(o, ks) == [k \in ks |-> o[k]]

\* String(value) for a scalar.
StringOf(v) == IF v.t \in {"string", "number"} THEN v.s ELSE v.t

(***************************************************************************)
(* A query string is a sequence of parameters: the key k, whether the key  *)
(* is written with a trailing "[]" (b), whether "=" and a value follow     *)
(* (eq), and the value's text v.                                           *)
(***************************************************************************)
Param(k, b, eq, v) == [k |-> k, b |-> b, eq |-> eq, v |-> v]

RECURSIVE Flatten(_)
Flatten(ss) == IF ss = <<>> THEN <<>> ELSE Head(ss) \o Flatten(Tail(ss))

(***************************************************************************)
(* The query-string codec as the "service" form configures it.             *)
(***************************************************************************)
\* Mutant of queryStringConfig: skipEmptyString left out.
queryStringConfigKeepsEmpty ==
    [arrayFormat |-> "bracket", skipNull |-> TRUE, skipEmptyString |-> FALSE]

queryStringConfig == [arrayFormat |-> "bracket", skipNull |-> TRUE, skipEmptyString |-> TRUE]

\* stringify's formatter for one array element (encoderForArrayFormat).
EncodeArrayItem(key, value, options) ==
    IF \/ value.t = "undefined"
       \/ (options.skipNull /\ value.t = "null")
       \/ (options.skipEmptyString /\ value = Str(""))
    THEN <<>>
    ELSE IF value.t = "null"
         THEN <<Param(key, options.arrayFormat = "bracket", FALSE, "")>>
         ELSE <<Param(key, options.arrayFormat = "bracket", TRUE, StringOf(value))>>

\* stringify's encoding of one key that was not filtered out.
EncodeKey(key, value, options) ==
    CASE value.t = "undefined" -> <<>>
      [] value.t = "null" -> <<Param(key, FALSE, FALSE, "")>>
      [] value.t = "array" ->
           Flatten([i \in 1..Len(value.a) |-> EncodeArrayItem(key, value.a[i], options)])
      [] OTHER -> <<Param(key, FALSE, TRUE, StringOf(value))>>

ShouldFilter(value, options) ==
    \/ (options.skipNull /\ IsNullOrUndefined(value))
    \/ (options.skipEmptyString /\ value = Str(""))

\* stringify(object, options): '' for no object; else the kept keys, sorted.
stringify(object, options) ==
    IF IsNullish(object) THEN <<>>
    ELSE LET kept == {k \in DOMAIN object.o : ~ShouldFilter(object.o[k], options)}
             keys == Keys(Restrict(object.o, kept))
         IN  Flatten([i \in 1..Len(keys) |-> EncodeKey(keys[i], object.o[keys[i]], options)])

\* parse's value of one parameter: null for a key without "=", else the text.
ParamValue(p) == IF p.eq THEN Str(p.v) ELSE Null

\* parserForArrayFormat: one parameter folded into the accumulator.
ParseParam(acc, p, options) ==
    LET value == ParamValue(p)
        old   == IF p.k \in DOMAIN acc THEN acc[p.k] ELSE Undef
        new   == IF p.b /\ options.arrayFormat = "bracket"
                 THEN IF old.t = "undefined" THEN Arr(<<value>>)
                      ELSE IF old.t = "array" THEN Arr(Append(old.a, value))
                      ELSE Arr(<<old, value>>)
                 ELSE value
    IN  [k \in DOMAIN acc \cup {p.k} |-> IF k = p.k THEN new ELSE acc[k]]

RECURSIVE ParseParams(_, _, _)
ParseParams(acc, params, options) ==
    IF params = <<>> THEN acc
    ELSE ParseParams(ParseParam(acc, Head(params), options), Tail(params), options)

\* parseUrl(asPath, options).query
parseUrl(asPath, options) == ParseParams(<<>>, asPath.query, options)

(***************************************************************************)
(* The router's own query handling, which the "tsx" and "context" forms    *)
(* rely on: router.replace({pathname, query}) formats the query object,    *)
(* and router.query is the router's parse of the URL.                      *)
(***************************************************************************)
\* A query value as router.replace writes it: text for strings and numbers,
\* '' for everything else.
RouterParamText(value) == IF value.t \in {"string", "number"} THEN value.s ELSE ""

RouterFormatKey(key, value) ==
    IF value.t = "array"
    THEN [i \in 1..Len(value.a) |-> Param(key, FALSE, TRUE, RouterParamText(value.a[i]))]
    ELSE <<Param(key, FALSE, TRUE, RouterParamText(value))>>

RouterFormatQuery(object) ==
    LET keys == Keys(object.o)
    IN  Flatten([i \in 1..Len(keys) |-> RouterFormatKey(keys[i], object.o[keys[i]])])

RouterParseParam(acc, p) ==
    LET value == Str(p.v)
        new   == IF p.k \notin DOMAIN acc THEN value
                 ELSE IF acc[p.k].t = "array" THEN Arr(Append(acc[p.k].a, value))
                 ELSE Arr(<<acc[p.k], value>>)
    IN  [k \in DOMAIN acc \cup {p.k} |-> IF k = p.k THEN new ELSE acc[k]]

RECURSIVE RouterParseParams(_, _)
RouterParseParams(acc, params) ==
    IF params = <<>> THEN acc
    ELSE RouterParseParams(RouterParseParam(acc, Head(params)), Tail(params))

\* router.query
RouterQuery(asPath) == RouterParseParams(<<>>, asPath.query)

(***************************************************************************)
(* The caller's parameters.  initialFilters, queryParser and the helpers   *)
(* it uses are those of the README's useCartFilters example.               *)
(***************************************************************************)
initialFilters ==
    Obj([page |-> Num("1"), perPage |-> Num("50"),
         sortBy |-> Null, sortDirection |-> Str("asc")])

\* The decimal texts the model's URLs use.
Numerals == {"1", "2", "3", "50"}

parseNumberHelper(queries, key, default) ==
    IF key \in DOMAIN queries /\ queries[key].t = "string" /\ queries[key].s \in Numerals
    THEN Num(queries[key].s) ELSE default

parseStringHelper(queries, key, default) ==
    IF key \in DOMAIN queries /\ queries[key].t = "string" /\ queries[key].s # ""
    THEN queries[key] ELSE default

queryParser(queries) ==
    Obj([page          |-> parseNumberHelper(queries, "page", Num("1")),
         perPage       |-> parseNumberHelper(queries, "perPage", Num("50")),
         sortBy        |-> parseStringHelper(queries, "sortBy", Null),
         sortDirection |-> parseStringHelper(queries, "sortDirection", Str("asc"))])

\* A queryTransformer: the page size is not written to the URL.
queryTransformer(data) == Obj(Restrict(data.o, DOMAIN data.o \ {"perPage"}))

(***************************************************************************)
(* The hook's pure parts.                                                  *)
(***************************************************************************)
\* The URL query as the hook reads it.
UrlQueries(form, asPath) ==
    IF form = "service" THEN parseUrl(asPath, queryStringConfig) ELSE RouterQuery(asPath)

\* Mutant of InitialData: the URL query is not looked at.
InitialDataIgnoresUrl(form, rtr) == IF ~rtr.isReady THEN Undefined ELSE initialFilters

\* Mutant of InitialData: the router's readiness is not looked at.
InitialDataIgnoresReady(form, rtr) ==
    LET queries == UrlQueries(form, rtr.asPath)
    IN  IF Cardinality(DOMAIN queries) # 0 THEN queryParser(queries) ELSE initialFilters

\* useQuery's initialData for the filters read.
InitialData(form, rtr) ==
    IF ~rtr.isReady THEN Undefined
    ELSE LET queries == UrlQueries(form, rtr.asPath)
         IN  IF Cardinality(DOMAIN queries) # 0 THEN queryParser(queries) ELSE initialFilters

\* useQuery's select for the filters read.
Select(data) == Coalesce(data, initialFilters)

\* Mutant of ReflectSkipped: the data is not looked at.
ReflectSkippedIgnoresData(rtr, data) == ~rtr.isReady

\* handleSetFiltersInUrl's early return.
ReflectSkipped(rtr, data) == ~rtr.isReady \/ IsNullish(data)

TransformedData(prps, data) == IF prps.queryTransformer THEN queryTransformer(data) ELSE data

\* router.asPath.replace(/\?.+/, ''): asPath from its first ? on is cut off;
\* without a query there is no ?, and a fragment stays in the text.
StrippedPathname(asPath) ==
    [path |-> asPath.path, hash |-> IF asPath.query = <<>> THEN asPath.hash ELSE ""]

\* The path Next writes for the pathname of a URL object: a # in it is
\* percent-encoded.
RouterFormatPathname(pathname) ==
    IF pathname.hash = "" THEN pathname.path
    ELSE pathname.path \o "%23" \o pathname.hash

\* The location handleSetFiltersInUrl hands to router.replace.
ReplacedUrl(form, rtr, transformedData) ==
    IF form = "service"
    THEN [path  |-> rtr.asPath.path,
          query |-> stringify(transformedData, queryStringConfig),
          hash  |-> ""]
    ELSE [path  |-> RouterFormatPathname(StrippedPathname(rtr.asPath)),
          query |-> RouterFormatQuery(transformedData),
          hash  |-> ""]

\* Mutant of ReplaceScrolls: no form passes a scroll option.
ReplaceScrollsAlways(form, prps) == TRUE

\* Whether the router.replace of handleSetFiltersInUrl scrolls to the top:
\* the option it passes, true when it passes none.
ReplaceScrolls(form, prps) ==
    IF form = "service" THEN FALSE
    ELSE IF form = "context" THEN prps.scrollAfterUpdateQuery # "false"
    ELSE TRUE

(***************************************************************************)
(* State.                                                                  *)
(*   variant  the form of the hook in use                                  *)
(*   props    which optional parameters the caller supplied                *)
(*   router   the router: isReady and asPath (path and query string)       *)
(*   store    what the caller's store holds: the value getFiltersValues    *)
(*            resolves with                                                *)
(*   queries  the cache entries of the filters read, by the readiness      *)
(*            segment of their key [filtersKey, 'filters', isReady,        *)
(*            initialFilters]                                              *)
(*   writes   the setFilters / resetFilters mutations, in call order       *)
(*   codec    the codec exercise: a value, its encoding, its parse         *)
(***************************************************************************)
(*   counter  the applied-count effect: the getAppliedFiltersCount in use,  *)
(*            filters.data, the appliedFiltersCount state and the           *)
(*            dependencies the effect last ran with                         *)
(*   keyspace two hooks on one query client: their keys and the cache       *)
(*            entries under them                                            *)
(*   provider FiltersManagerContextProvider: the queryClient prop and the   *)
(*            memoised client                                               *)
(*   reads    the variants read and the data read next to the filters read  *)
VARIABLES variant, props, router, store, queries, writes, codec,
          counter, keyspace, provider, reads

vars == <<variant, props, router, store, queries, writes, codec,
          counter, keyspace, provider, reads>>

\* The state of the filters read, the writes and the URL reflection.
hook == <<variant, props, router, store, queries, writes, codec>>

\* The state of the hook's other parts.
aux == <<counter, keyspace, provider, reads>>

\* The other parts at rest.
CounterIdle ==
    [getAppliedFiltersCount |-> "undefined", data |-> Undefined, appliedFiltersCount |-> 0,
     ran |-> FALSE, deps |-> [getAppliedFiltersCount |-> "undefined", data |-> Undefined]]

KeyspaceIdle == [pc |-> "idle", hooks |-> <<>>, cache |-> {}]

NoClient == [by |-> "none", id |-> 0]

ProviderIdle ==
    [pc |-> "idle", queryClient |-> NoClient, deps |-> NoClient, client |-> NoClient,
     renders |-> 0, constructed |-> 0, passed |-> FALSE]

ReadsIdle == [pc |-> "idle"]

AuxIdle ==
    /\ counter = CounterIdle
    /\ keyspace = KeyspaceIdle
    /\ provider = ProviderIdle
    /\ reads = ReadsIdle

\* The number of write operations a behaviour invokes.
MaxWrites == 1

Forms == {"tsx", "service", "context"}

PropsOf(form) ==
    {p \in [queryTransformer : BOOLEAN, querySetter : BOOLEAN,
            scrollAfterUpdateQuery : {"undefined"}] :
        p.querySetter => form = "context"}

Path(query) == [path |-> "/cart", query |-> query, hash |-> ""]

\* The URLs a page is opened with: no query, and ?page=2&sortDirection=desc.
InitialUrls ==
    {Path(<<>>),
     Path(<<Param("page", FALSE, TRUE, "2"), Param("sortDirection", FALSE, TRUE, "desc")>>)}

StoredFilters ==
    Obj([page |-> Num("3"), perPage |-> Num("50"), sortBy |-> Str("name"),
         sortDirection |-> Str("asc")])

NewFilters ==
    Obj([page |-> Num("2"), perPage |-> Num("50"), sortBy |-> Null,
         sortDirection |-> Str("desc")])

EmptyFilters == Obj(<<>>)

\* The FilterSets setFilters is called with.
FilterArgs == {NewFilters}

\* A ResetFilterCallback.
resetCallback(initial) == Obj([initial.o EXCEPT !.sortDirection = Str("desc")])

\* What setFiltersValues may resolve with for the argument data: the
\* argument, the store's normalised copy of it, or nothing.
Normalised(data) ==
    IF "page" \in DOMAIN data.o THEN Obj([data.o EXCEPT !.page = Num("1")]) ELSE data

Echoes(data) == {data, Normalised(data), Undefined}

Errors == {"rejected"}

NoQuery ==
    [exists |-> FALSE, data |-> Undefined, status |-> "loading", fetchStatus |-> "idle",
     isInvalidated |-> FALSE, origin |-> "none", seed |-> Undefined,
     seedPath |-> Path(<<>>), parsed |-> FALSE, resolved |-> Undefined]

NoReflect ==
    [outcome |-> "none", data |-> Undefined, passed |-> Undefined,
     before |-> Path(<<>>), after |-> Path(<<>>), ready |-> FALSE, scroll |-> FALSE]

\* The key of the filters read the hook observes.
ActiveKey(rtr) == rtr.isReady

\* useQuery on a key with no cache entry: the entry is built with
\* initialData and, being stale at once, fetched on mount.
BuildQuery(form, rtr) ==
    LET seed == InitialData(form, rtr)
    IN  [exists |-> TRUE, data |-> seed,
         status |-> IF IsNullish(seed) THEN "loading" ELSE "success",
         fetchStatus |-> "fetching", isInvalidated |-> FALSE,
         origin |-> IF IsNullish(seed) THEN "none" ELSE "initialData",
         seed |-> seed, seedPath |-> rtr.asPath,
         parsed |-> rtr.isReady /\ Cardinality(DOMAIN UrlQueries(form, rtr.asPath)) # 0,
         resolved |-> Undefined]

\* filters.data as the hook returns it.
FiltersData == 
    LET q == queries[ActiveKey(router)]
    IN  IF IsNullish(q.data) THEN Undefined ELSE Select(q.data)

CodecIdle == [pc |-> "idle", data |-> Undefined, reflect |-> NoReflect, parsed |-> <<>>]

Init ==
    /\ variant \in Forms
    /\ props \in PropsOf(variant)
    /\ router \in [isReady : BOOLEAN, asPath : InitialUrls]
    /\ store \in {Undefined, StoredFilters}
    /\ queries = [k \in BOOLEAN |->
                    IF k = ActiveKey(router) THEN BuildQuery(variant, router) ELSE NoQuery]
    /\ writes = <<>>
    /\ codec = CodecIdle
    /\ AuxIdle

(***************************************************************************)
(* The write operations.  A write is one useMutation run: the call of      *)
(* setFiltersValues (phase "persisting"), then onSuccess, which awaits     *)
(* invalidateQueries (phase "invalidating") and then calls                 *)
(* handleSetFiltersInUrl (phase "success"); or the call's rejection        *)
(* (phase "error").                                                        *)
(***************************************************************************)
\* handleSetFiltersInUrl(data) with the router as it is: what it did, the
\* value it handed on, and the location before and after.
handleSetFiltersInUrl(form, prps, rtr, data) ==
    IF ReflectSkipped(rtr, data)
    THEN [outcome |-> "skipped", data |-> data, passed |-> Undefined,
          before |-> rtr.asPath, after |-> rtr.asPath, ready |-> rtr.isReady,
          scroll |-> FALSE]
    ELSE LET transformedData == TransformedData(prps, data)
         IN  IF form = "context" /\ prps.querySetter
             THEN [outcome |-> "querySetter", data |-> data, passed |-> transformedData,
                   before |-> rtr.asPath, after |-> rtr.asPath, ready |-> rtr.isReady,
                   scroll |-> FALSE]
             ELSE [outcome |-> "replace", data |-> data, passed |-> transformedData,
                   before |-> rtr.asPath,
                   after |-> ReplacedUrl(form, rtr, transformedData),
                   ready |-> rtr.isReady, scroll |-> ReplaceScrolls(form, prps)]

\* Mutant of ResetTarget: the callback is not applied.
ResetTargetIgnoresCallback(callback) == initialFilters

\* The argument resetFilters' mutation function passes to setFiltersValues.
ResetTarget(callback) ==
    IF callback = "callback" THEN resetCallback(initialFilters) ELSE initialFilters

NewWrite(op, input, persisted) ==
    [op |-> op, input |-> input, persisted |-> persisted, calls |-> 1,
     phase |-> "persisting", data |-> Undefined, error |-> "", waitsFor |-> FALSE,
     invalidated |-> {}, reflect |-> NoReflect, resolvedAt |-> 0]

\* Mutant of AfterReject: the call is made a second time before giving up.
AfterRejectRetries(w, error) ==
    IF w.calls < 2 THEN [w EXCEPT !.calls = @ + 1]
    ELSE [w EXCEPT !.phase = "error", !.error = error]

\* A write whose setFiltersValues call rejected: useMutation does not retry.
AfterReject(w, error) == [w EXCEPT !.phase = "error", !.error = error]

\* Mutant of OnSuccessData: the mutation's variables instead of its result.
OnSuccessVariables(w) == w.persisted

\* The data onSuccess hands to handleSetFiltersInUrl: the mutation's result.
OnSuccessData(w) == w.data

\* invalidateQueries([...filtersKey, 'filters']): the entries it marks.
InvalidatedKeys(qs) == {k \in BOOLEAN : qs[k].exists}

\* The place of the next persistence call to resolve among those that
\* resolved.
NextResolved(ws) == Cardinality({j \in DOMAIN ws : ws[j].resolvedAt > 0}) + 1

\* Mutant of Release: no handler goes on after its await.
ReleaseNone(form, prps, ws, rtr, k, n) == [writes |-> ws, router |-> rtr]

\* The success handlers whose awaited refetch of entry k has settled run
\* handleSetFiltersInUrl, in the order in which they began to wait: that of
\* their persistence calls' resolving.
RECURSIVE Release(_, _, _, _, _, _)
Release(form, prps, ws, rtr, k, n) ==
    IF n > Len(ws) THEN [writes |-> ws, router |-> rtr]
    ELSE LET waiting == {i \in DOMAIN ws : /\ ws[i].resolvedAt = n
                                            /\ ws[i].phase = "invalidating"
                                            /\ ws[i].waitsFor = k}
         IN  IF waiting = {} THEN Release(form, prps, ws, rtr, k, n + 1)
             ELSE LET i == CHOOSE i \in waiting : TRUE
                      r == handleSetFiltersInUrl(form, prps, rtr, OnSuccessData(ws[i]))
                  IN  Release(form, prps,
                              [ws EXCEPT ![i].phase = "success", ![i].reflect = r],
                              [rtr EXCEPT !.asPath = r.after], k, n + 1)

\* Mutant of AfterMutate: a new write supersedes the ones whose persistence
\* call is still under way.
AfterMutateCoalesced(ws, w) ==
    Append([i \in DOMAIN ws |->
              IF ws[i].phase = "persisting"
              THEN [ws[i] EXCEPT !.phase = "dropped", !.calls = 0] ELSE ws[i]], w)

\* mutate(): each call runs a mutation of its own, next to the ones under
\* way.
AfterMutate(ws, w) == Append(ws, w)

\* setFilters.mutate(data)
SetFiltersMutate(data, limit) ==
    /\ Len(writes) < limit
    /\ writes' = AfterMutate(writes, NewWrite("setFilters", "data", data))
    /\ UNCHANGED <<variant, props, router, store, queries, codec>>
    /\ UNCHANGED aux

\* resetFilters.mutate(callback) and resetFilters.mutate()
ResetFiltersMutate(callback, limit) ==
    /\ Len(writes) < limit
    /\ writes' = AfterMutate(writes, NewWrite("resetFilters", callback, ResetTarget(callback)))
    /\ UNCHANGED <<variant, props, router, store, queries, codec>>
    /\ UNCHANGED aux

\* setFiltersValues resolves with data: onSuccess runs up to its await.
\* invalidateQueries marks every filters entry and refetches the observed
\* one; a fetch of it that is under way is cancelled when the entry holds
\* data (which settles the awaits of earlier writes) and joined otherwise.
PersistResolve(i, data) ==
    /\ writes[i].phase = "persisting"
    /\ LET k       == ActiveKey(router)
           cancels == queries[k].fetchStatus = "fetching" /\ queries[k].origin # "none"
           marked  == InvalidatedKeys(queries)
           rel     == IF cancels THEN Release(variant, props, writes, router, k, 1)
                      ELSE [writes |-> writes, router |-> router]
       IN  /\ store' = IF IsNullish(data) THEN writes[i].persisted ELSE data
           /\ queries' = [q \in BOOLEAN |->
                            IF q \in marked
                            THEN [queries[q] EXCEPT
                                    !.isInvalidated = TRUE,
                                    !.fetchStatus = IF q = k THEN "fetching" ELSE @]
                            ELSE queries[q]]
           /\ writes' = [rel.writes EXCEPT ![i].phase = "invalidating", ![i].data = data,
                                           ![i].waitsFor = k, ![i].invalidated = marked,
                                           ![i].resolvedAt = NextResolved(writes)]
           /\ router' = rel.router
    /\ UNCHANGED <<variant, props, codec>>
    /\ UNCHANGED aux

\* setFiltersValues rejects.
PersistReject(i, error) ==
    /\ writes[i].phase = "persisting"
    /\ writes' = [writes EXCEPT ![i] = AfterReject(writes[i], error)]
    /\ UNCHANGED <<variant, props, router, store, queries, codec>>
    /\ UNCHANGED aux

\* Mutant of FetchedFilters: no fallback to initialFilters.
FetchedFiltersNoFallback(stored) == stored

\* The filters read's query function: (await getFiltersValues()) ?? initialFilters
FetchedFilters(stored) == Coalesce(stored, initialFilters)

\* A fetch of the filters read settles with the store's value.
FetchResolve(k) ==
    /\ queries[k].fetchStatus = "fetching"
    /\ queries' = [queries EXCEPT ![k].data = FetchedFilters(store), ![k].resolved = store,
                                  ![k].status = "success", ![k].origin = "fetch",
                                  ![k].isInvalidated = FALSE, ![k].fetchStatus = "idle"]
    /\ LET rel == Release(variant, props, writes, router, k, 1)
       IN  writes' = rel.writes /\ router' = rel.router
    /\ UNCHANGED <<variant, props, store, codec>>
    /\ UNCHANGED aux

\* getFiltersValues rejects (and the retries with it).
FetchReject(k) ==
    /\ queries[k].fetchStatus = "fetching"
    /\ queries' = [queries EXCEPT ![k].status = "error", ![k].fetchStatus = "idle"]
    /\ LET rel == Release(variant, props, writes, router, k, 1)
       IN  writes' = rel.writes /\ router' = rel.router
    /\ UNCHANGED <<variant, props, store, codec>>
    /\ UNCHANGED aux

\* The router becomes ready: the hook renders again, now observing the
\* entry keyed with isReady = true.
RouterBecomesReady ==
    /\ ~router.isReady
    /\ router' = [router EXCEPT !.isReady = TRUE]
    /\ queries' = [queries EXCEPT ![TRUE] = BuildQuery(variant, router')]
    /\ UNCHANGED <<variant, props, store, writes, codec>>
    /\ UNCHANGED aux

Next ==
    \/ \E data \in FilterArgs : SetFiltersMutate(data, MaxWrites)
    \/ \E callback \in {"none", "callback"} : ResetFiltersMutate(callback, MaxWrites)
    \/ \E i \in DOMAIN writes : \E data \in Echoes(writes[i].persisted) :
          PersistResolve(i, data)
    \/ \E i \in DOMAIN writes, error \in Errors : PersistReject(i, error)
    \/ \E k \in BOOLEAN : FetchResolve(k)
    \/ \E k \in BOOLEAN : FetchReject(k)
    \/ RouterBecomesReady

Spec == Init /\ [][Next]_vars

\* The write handles as the hook returns them: the state of the last
\* mutation each one ran.
LastWrite(op) ==
    LET is == {i \in DOMAIN writes : writes[i].op = op}
    IN  IF is = {} THEN 0 ELSE CHOOSE i \in is : \A j \in is : j <= i

MutationResult(op) ==
    LET i == LastWrite(op)
    IN  IF i = 0 THEN [status |-> "idle", data |-> Undefined, error |-> ""]
        ELSE [status |-> IF writes[i].phase \in {"persisting", "invalidating"}
                         THEN "loading" ELSE writes[i].phase,
              data   |-> IF writes[i].phase = "success" THEN writes[i].data ELSE Undefined,
              error  |-> writes[i].error]

setFilters == MutationResult("setFilters")

resetFilters == MutationResult("resetFilters")

(***************************************************************************)
(* Properties of the filters read and the write operations, checked under  *)
(* Spec.                                                                   *)
(***************************************************************************)
\* The step in which write i of operation op leaves its persistence call
\* with a result marks every filters entry there is as invalidated.
InvalidatesAll(op) ==
    \A i \in DOMAIN writes :
        (writes[i].op = op /\ writes[i].phase = "persisting"
            /\ writes'[i].phase \notin {"persisting", "error"}) =>
            \A k \in BOOLEAN : queries[k].exists => queries'[k].isInvalidated

\* A succeeded write of operation op ran handleSetFiltersInUrl, and ran it
\* with the value its persistence call resolved with.
ReflectsEcho(op) ==
    \A i \in DOMAIN writes :
        (writes[i].op = op /\ writes[i].phase = "success") =>
            /\ writes[i].reflect.outcome # "none"
            /\ writes[i].reflect.data = writes[i].data
            /\ (i = LastWrite(op) => MutationResult(op).data = writes[i].data)

\* A write of operation op whose persistence call rejected neither
\* invalidated nor ran handleSetFiltersInUrl.
RejectedUntouched(op) ==
    \A i \in DOMAIN writes :
        (writes[i].op = op /\ writes[i].phase = "error") =>
            writes[i].reflect = NoReflect /\ writes[i].invalidated = {}

\* C1: for every FilterSet V passed to setFilters whose setFiltersValues(V)
\* resolves with E, every cache entry under <filtersKey, "filters"> is
\* invalidated, and handleSetFiltersInUrl is invoked with E, not with V.
C1_SetFiltersSuccess ==
    /\ [][InvalidatesAll("setFilters")]_vars
    /\ []ReflectsEcho("setFilters")

\* A setFilters whose store echoed a value other than its argument has
\* succeeded: the URL was replaced from the echo, and the entry that is not
\* observed is still marked.
C1_Witness ==
    \E i \in DOMAIN writes :
        /\ writes[i].op = "setFilters" /\ writes[i].phase = "success"
        /\ ~IsNullish(writes[i].data) /\ writes[i].data # writes[i].persisted
        /\ writes[i].reflect.outcome = "replace"
        /\ writes[i].reflect.passed = TransformedData(props, writes[i].data)
        /\ writes[i].invalidated = BOOLEAN
        /\ queries[FALSE].isInvalidated

\* C2: when setFiltersValues rejects during setFilters or resetFilters, the
\* URL is not changed, no cache entry is invalidated, the call is not made
\* again, and the rejection reason is the error of the write handle invoked.
C2_RejectionLeavesAll ==
    /\ [][\A i \in DOMAIN writes :
            (writes[i].phase = "persisting" /\ writes'[i].phase = "error") =>
                router' = router /\ queries' = queries /\ store' = store]_vars
    /\ [](\A i \in DOMAIN writes :
            /\ writes[i].calls = 1
            /\ writes[i].phase = "error" =>
                  /\ writes[i].error \in Errors
                  /\ writes[i].reflect = NoReflect
                  /\ writes[i].invalidated = {}
                  /\ (i = LastWrite(writes[i].op) =>
                        /\ MutationResult(writes[i].op).status = "error"
                        /\ MutationResult(writes[i].op).error = writes[i].error))

\* A write was rejected with the router ready and a query in the URL.
C2_Witness ==
    \E i \in DOMAIN writes :
        /\ writes[i].phase = "error"
        /\ router.isReady /\ router.asPath.query # <<>>
        /\ MutationResult(writes[i].op).error = "rejected"

\* C3: resetFilters called with a transform f calls setFiltersValues with
\* f(initialFilters), called with no argument it calls it with
\* initialFilters; in both cases success and failure are handled as for
\* setFilters: the filters entries are invalidated, then the echoed result
\* is handed to handleSetFiltersInUrl; a rejection does neither.
C3_ResetFilters ==
    /\ [][InvalidatesAll("resetFilters")]_vars
    /\ [](/\ \A i \in DOMAIN writes :
                writes[i].op = "resetFilters" =>
                    writes[i].persisted =
                        IF writes[i].input = "callback" THEN resetCallback(initialFilters)
                        ELSE initialFilters
          /\ ReflectsEcho("resetFilters")
          /\ RejectedUntouched("resetFilters"))

\* A resetFilters with a transform has succeeded, having persisted the
\* transform of initialFilters and replaced the URL from the echo.
C3_Witness ==
    \E i \in DOMAIN writes :
        /\ writes[i].op = "resetFilters" /\ writes[i].input = "callback"
        /\ writes[i].phase = "success"
        /\ writes[i].persisted =
              Obj([page |-> Num("1"), perPage |-> Num("50"), sortBy |-> Null,
                   sortDirection |-> Str("desc")])
        /\ writes[i].persisted # initialFilters
        /\ writes[i].reflect.outcome = "replace"
        /\ writes[i].reflect.data = writes[i].data

C5_UrlPreferred ==
    (router.isReady /\ writes = <<>>) =>
        LET urlQueries == UrlQueries(variant, router.asPath)
        IN  IF DOMAIN urlQueries # {} THEN FiltersData = queryParser(urlQueries)
            ELSE queries[TRUE].origin = "fetch" =>
                    FiltersData = IF IsNullish(store) THEN initialFilters ELSE store

\* C6: while the router is not ready the filters read has no seed: its data
\* is absent until the router becomes ready or the getFiltersValues fetch
\* settles, and queryParser is not called for it.
C6_NotReadyPending ==
    /\ IsNullish(queries[FALSE].seed)
    /\ ~queries[FALSE].parsed
    /\ (~router.isReady /\ queries[FALSE].origin # "fetch") =>
            /\ FiltersData = Undefined
            /\ queries[FALSE].status # "success"

\* The router is not ready on a URL with a query, a write is under way, and
\* the filters read is still pending.
C6_Witness ==
    /\ ~router.isReady /\ router.asPath.query # <<>>
    /\ queries[FALSE].fetchStatus = "fetching" /\ queries[FALSE].origin = "none"
    /\ writes # <<>>
    /\ FiltersData = Undefined

\* C7: whenever getFiltersValues resolves with an empty value the filters
\* read resolves to initialFilters; whenever it resolves with a FilterSet it
\* resolves to that FilterSet.
C7_FetchFallback ==
    \A k \in BOOLEAN :
        queries[k].origin = "fetch" =>
            /\ queries[k].data =
                  IF IsNullish(queries[k].resolved) THEN initialFilters
                  ELSE queries[k].resolved
            /\ (k = ActiveKey(router) => FiltersData = queries[k].data)

\* Both outcomes happened: one filters read resolved from an empty store to
\* initialFilters, the other from a written store to what was written.
C7_Witness ==
    /\ queries[FALSE].origin = "fetch" /\ IsNullish(queries[FALSE].resolved)
    /\ queries[FALSE].data = initialFilters
    /\ queries[TRUE].origin = "fetch" /\ ~IsNullish(queries[TRUE].resolved)
    /\ FiltersData = queries[TRUE].resolved

(***************************************************************************)
(* The URL-reflection procedure and the codec on their own: a value is     *)
(* handed to handleSetFiltersInUrl, and the location it leaves is read     *)
(* back the way the hook reads the URL.                                    *)
(***************************************************************************)
\* The longest sequence-valued field.
MaxArrLen == 2

Absent == [t |-> "absent", s |-> "", a |-> <<>>]

ArrayItems == {Null, Str(""), Str("a"), Num("2")}

Arrays == {Arr(xs) : xs \in UNION {[1..n -> ArrayItems] : n \in 0..MaxArrLen}}

Scalars == {Null, Undef, Str(""), Str("name"), Num("2")}

\* The values handed to the procedure: nothing, and every object whose
\* fields are drawn from perPage (a number), sortBy (a scalar) and tags (a
\* sequence).
ReflectInputs ==
    {Undefined} \cup
    {Obj(Restrict(slots, {k \in DOMAIN slots : slots[k] # Absent})) :
        slots \in [perPage : {Absent, Num("50")}, sortBy : Scalars \cup {Absent},
                   tags : Arrays \cup {Absent}]}

\* The parameters of the hook in a form, the scroll flag of the context
\* form included.
ReflectPropsOf(form) ==
    {[p EXCEPT !.scrollAfterUpdateQuery = flag] :
        p \in PropsOf(form),
        flag \in IF form = "context" THEN {"undefined", "true", "false"} ELSE {"undefined"}}

\* The locations the procedure is called on: with and without a query, with
\* and without a fragment.
ReflectUrls ==
    {[url EXCEPT !.hash = fragment] : url \in InitialUrls, fragment \in {"", "top"}}

InitReflect ==
    /\ variant \in Forms
    /\ props \in ReflectPropsOf(variant)
    /\ router \in [isReady : BOOLEAN, asPath : ReflectUrls]
    /\ store = Undefined
    /\ queries = [k \in BOOLEAN |-> NoQuery]
    /\ writes = <<>>
    /\ codec \in {[pc |-> "input", data |-> d, reflect |-> NoReflect, parsed |-> <<>>] :
                    d \in ReflectInputs}
    /\ AuxIdle

\* handleSetFiltersInUrl(codec.data)
ReflectFilters ==
    /\ codec.pc = "input"
    /\ LET r == handleSetFiltersInUrl(variant, props, router, codec.data)
       IN  /\ codec' = [codec EXCEPT !.pc = "reflected", !.reflect = r]
           /\ router' = [router EXCEPT !.asPath = r.after]
    /\ UNCHANGED <<variant, props, store, queries, writes>>
    /\ UNCHANGED aux

\* The hook reads the query of the location.
ReadUrl ==
    /\ codec.pc = "reflected"
    /\ codec' = [codec EXCEPT !.pc = "parsed", !.parsed = UrlQueries(variant, router.asPath)]
    /\ UNCHANGED <<variant, props, router, store, queries, writes>>
    /\ UNCHANGED aux

NextReflect == ReflectFilters \/ ReadUrl

SpecReflect == InitReflect /\ [][NextReflect]_vars

(***************************************************************************)
(* Properties of the URL-reflection procedure and the codec, checked under *)
(* SpecReflect.                                                            *)
(***************************************************************************)
KeyParams(query, k) == SelectSeq(query, LAMBDA p : p.k = k)

\* Neither null, undefined nor the empty string.
IsClean(v) == ~IsNullOrUndefined(v) /\ v # Str("")

CleanItems(xs) == SelectSeq(xs, IsClean)

Reflected == codec.pc \in {"reflected", "parsed"} /\ codec.reflect.outcome = "replace"

\* The procedure has run.
Ran == codec.pc \in {"reflected", "parsed"}

\* C8 as stated: handleSetFiltersInUrl does nothing (no router.replace, no
\* custom query setter, URL unchanged) when the router is not ready or the
\* FilterSet is empty or absent, a FilterSet with no fields included.
C8_NoOpWhenEmpty ==
    (Ran /\ (~codec.reflect.ready \/ IsNullish(codec.data) \/ codec.data = EmptyFilters)) =>
        /\ codec.reflect.outcome = "skipped"
        /\ router.asPath = codec.reflect.before

\* C8 amended: handleSetFiltersInUrl does nothing when the router is not
\* ready or the FilterSet is absent (undefined or null); a FilterSet with no
\* fields is not absent: with a ready router it is handed to the custom
\* query setter or to router.replace, which leaves the URL without a query.
C8_NoOpWhenAbsent ==
    Ran =>
        /\ (~codec.reflect.ready \/ IsNullish(codec.data)) =>
                /\ codec.reflect.outcome = "skipped"
                /\ router.asPath = codec.reflect.before
        /\ (codec.reflect.ready /\ codec.data = EmptyFilters) =>
                /\ codec.reflect.outcome \in {"querySetter", "replace"}
                /\ codec.reflect.passed = EmptyFilters
                /\ (codec.reflect.outcome = "replace" => router.asPath.query = <<>>)

\* The procedure was handed nothing with the router ready on a URL with a
\* query, and left it.
C8_Witness ==
    /\ Ran /\ codec.reflect.ready /\ IsNullish(codec.data)
    /\ codec.reflect.before.query # <<>>
    /\ codec.reflect.outcome = "skipped"
    /\ router.asPath = codec.reflect.before

\* C9: in the query string written by URL reflection, every field of the
\* transformed FilterSet whose value is null, undefined or the empty string
\* is omitted, every sequence-valued field is written in repeated-bracket
\* notation (name[]=a&name[]=b), and every other field appears with its
\* value.
C9_EncodingPolicy ==
    Reflected =>
        LET fields == codec.reflect.passed.o
            query  == codec.reflect.after.query
        IN  \A k \in DOMAIN fields :
              KeyParams(query, k) =
                IF ~IsClean(fields[k]) THEN <<>>
                ELSE IF fields[k].t = "array"
                     THEN LET items == CleanItems(fields[k].a)
                          IN  [i \in 1..Len(items) |-> Param(k, TRUE, TRUE, StringOf(items[i]))]
                     ELSE <<Param(k, FALSE, TRUE, StringOf(fields[k]))>>

\* The text form parse gives back for a written value.
TextForm(v) ==
    IF v.t = "array"
    THEN LET items == CleanItems(v.a)
         IN  Arr([i \in 1..Len(items) |-> Str(StringOf(items[i]))])
    ELSE Str(StringOf(v))

\* A field that reaches the query string: clean, and if a sequence, with a
\* clean element.
IsWritten(v) == IsClean(v) /\ (v.t = "array" => CleanItems(v.a) # <<>>)

ReadBack == codec.pc = "parsed" /\ codec.reflect.outcome = "replace" /\ variant = "service"

\* C10 as stated: encoding V with the URL-reflection procedure and parsing
\* the result with the same codec configuration yields V restricted to its
\* fields that are neither null/undefined nor the empty string.
C10_RoundTripExact ==
    (ReadBack /\ ~props.queryTransformer) =>
        codec.parsed = Restrict(codec.data.o, {k \in DOMAIN codec.data.o : IsClean(codec.data.o[k])})

\* C10 amended: with the query-string codec, encoding V and parsing the
\* result yields the text form of the written fields of the transformed V:
\* the fields that are neither null/undefined nor '' nor a sequence without
\* a clean element, each string as itself, each number as its decimal text,
\* each sequence as the sequence of the texts of its clean elements.
C10_RoundTripText ==
    ReadBack =>
        LET fields  == codec.reflect.passed.o
            written == {k \in DOMAIN fields : IsWritten(fields[k])}
        IN  codec.parsed = [k \in written |-> TextForm(fields[k])]

\* A number, a null and a sequence with a number went through the round trip.
C10_Witness ==
    /\ ReadBack
    /\ DOMAIN codec.data.o = {"perPage", "sortBy", "tags"}
    /\ codec.data.o["sortBy"] = Null
    /\ codec.data.o["tags"] = Arr(<<Str("a"), Num("2")>>)
    /\ codec.parsed = [perPage |-> Str("50"), tags |-> Arr(<<Str("a"), Str("2")>>)]

\* The encoding of a transformed FilterSet into the query of the location.
EncodedQuery(form, transformedData) ==
    IF form = "service" THEN stringify(transformedData, queryStringConfig)
    ELSE RouterFormatQuery(transformedData)

\* C11: when URL reflection runs with a ready router and a non-empty
\* FilterSet D (and no custom query setter takes the navigation over), the
\* new location has the path of the location before the call, its query is
\* the encoding of queryTransformer(D) if a queryTransformer is supplied and
\* of D otherwise, any previous query being dropped, and it is installed
\* with router.replace.
C11_ReplacePreservesPath ==
    (Ran /\ codec.reflect.ready /\ ~IsNullish(codec.data) /\ codec.data # EmptyFilters
        /\ ~props.querySetter) =>
        /\ codec.reflect.outcome = "replace"
        /\ router.asPath.path = codec.reflect.before.path
        /\ router.asPath.query =
              EncodedQuery(variant, IF props.queryTransformer
                                    THEN queryTransformer(codec.data) ELSE codec.data)

\* C18 as stated: a replace by URL reflection scrolls to the top when no
\* scroll flag is supplied and does not when the flag is false; a custom
\* query setter, when supplied, is called with the transformed FilterSet and
\* router.replace is not called.
C18_ScrollByDefault ==
    (Ran /\ codec.reflect.outcome # "skipped") =>
        IF props.querySetter
        THEN /\ codec.reflect.outcome = "querySetter"
             /\ codec.reflect.passed = TransformedData(props, codec.data)
             /\ router.asPath = codec.reflect.before
        ELSE /\ codec.reflect.outcome = "replace"
             /\ codec.reflect.scroll = (props.scrollAfterUpdateQuery # "false")

\* C18 amended: in the forms that hand router.replace a URL object the
\* replace scrolls to the top unless the scroll flag (context form only) is
\* false; in the query-string form the replace never scrolls, and there is
\* no flag; a custom query setter, when supplied, is called with the
\* transformed FilterSet and router.replace is not called.
C18_ScrollPerForm ==
    (Ran /\ codec.reflect.outcome # "skipped") =>
        IF props.querySetter
        THEN /\ codec.reflect.outcome = "querySetter"
             /\ codec.reflect.passed = TransformedData(props, codec.data)
             /\ router.asPath = codec.reflect.before
        ELSE /\ codec.reflect.outcome = "replace"
             /\ codec.reflect.scroll =
                   (variant # "service" /\ props.scrollAfterUpdateQuery # "false")

\* The context form replaced the URL with the scroll flag false, without
\* scrolling.
C18_Witness ==
    /\ Ran /\ variant = "context" /\ props.scrollAfterUpdateQuery = "false"
    /\ codec.reflect.outcome = "replace" /\ ~codec.reflect.scroll
    /\ router.asPath # codec.reflect.before

(***************************************************************************)
(* The applied count on its own: the hook renders with a filters.data and  *)
(* a getAppliedFiltersCount (or none), and after each render the effect    *)
(* runs if one of the two changed.                                         *)
(***************************************************************************)
\* The hook's main state at rest.
HookIdle ==
    /\ variant \in {"tsx", "context"}
    /\ props = [queryTransformer |-> FALSE, querySetter |-> FALSE,
                scrollAfterUpdateQuery |-> "undefined"]
    /\ router = [isReady |-> TRUE, asPath |-> Path(<<>>)]
    /\ store = Undefined
    /\ queries = [k \in BOOLEAN |-> NoQuery]
    /\ writes = <<>>
    /\ codec = CodecIdle

\* The callers' count functions: "changed" counts the fields that differ
\* from initialFilters, "set" the fields that are not null.
Counters == {"changed", "set"}

getAppliedFiltersCount(fn, params) ==
    IF fn = "changed"
    THEN Cardinality({k \in DOMAIN params.o : params.o[k] # initialFilters.o[k]})
    ELSE Cardinality({k \in DOMAIN params.o : params.o[k] # Null})

\* The values filters.data takes.
CountInputs == {Undefined, initialFilters, NewFilters, StoredFilters}

\* The dependencies of the effect as of the current render.
CountDeps == [getAppliedFiltersCount |-> counter.getAppliedFiltersCount, data |-> counter.data]

InitCount ==
    /\ HookIdle
    /\ counter \in {[CounterIdle EXCEPT !.getAppliedFiltersCount = fn, !.data = d] :
                        fn \in Counters \cup {"undefined"}, d \in CountInputs}
    /\ keyspace = KeyspaceIdle
    /\ provider = ProviderIdle
    /\ reads = ReadsIdle

\* The effect after a render: it runs after the first render and whenever a
\* dependency changed, and sets the count only if there is a function.
CountEffect ==
    /\ ~counter.ran \/ counter.deps # CountDeps
    /\ counter' = [counter EXCEPT
                     !.ran = TRUE,
                     !.deps = CountDeps,
                     !.appliedFiltersCount =
                        IF counter.getAppliedFiltersCount # "undefined"
                        THEN getAppliedFiltersCount(counter.getAppliedFiltersCount,
                                                    Coalesce(counter.data, initialFilters))
                        ELSE @]
    /\ UNCHANGED <<keyspace, provider, reads>>
    /\ UNCHANGED hook

\* A render with another getAppliedFiltersCount or another filters.data,
\* the effects of the render before it having run.
CountRender(fn, data) ==
    /\ counter.ran /\ counter.deps = CountDeps
    /\ counter' = [counter EXCEPT !.getAppliedFiltersCount = fn, !.data = data]
    /\ UNCHANGED <<keyspace, provider, reads>>
    /\ UNCHANGED hook

NextCount ==
    \/ CountEffect
    \/ \E fn \in Counters \cup {"undefined"}, data \in CountInputs : CountRender(fn, data)

SpecCount == InitCount /\ [][NextCount]_vars

\* C12: after any sequence of renders and filter changes, once the effects
\* have settled the applied count is getAppliedFiltersCount(filters.data ??
\* initialFilters) whenever a getAppliedFiltersCount is currently supplied,
\* and 0 whenever none is, whether or not one was supplied on an earlier
\* render.
C12_CountFollowsFilters ==
    (counter.ran /\ counter.deps = CountDeps) =>
        counter.appliedFiltersCount =
            IF counter.getAppliedFiltersCount # "undefined"
            THEN getAppliedFiltersCount(counter.getAppliedFiltersCount,
                                        Coalesce(counter.data, initialFilters))
            ELSE 0

(***************************************************************************)
(* Two hooks on one query client.  Each has its filtersKey, and reads the  *)
(* cache under three keys made from it; a successful write of one          *)
(* invalidates by the prefix made from its filtersKey.  The forms with an  *)
(* array filtersKey spread it into the key; the query-string form has a    *)
(* string filtersKey and appends to its text.                              *)
(***************************************************************************)
\* The longest filtersKey, in segments.
MaxKeyLen == 2

KeySegments == {"cart", "orders", "filters", "variants"}

\* The filtersKeys: the sequences of at most MaxKeyLen segments that start
\* with a namespace.  For the query-string form a sequence stands for the
\* string that is its segments' text in a row.
FiltersKeys ==
    {k \in UNION {[1..n -> KeySegments] : n \in 1..MaxKeyLen} : k[1] \in {"cart", "orders"}}

RECURSIVE KeyText(_)
KeyText(k) == IF k = <<>> THEN "" ELSE Head(k) \o KeyText(Tail(k))

Bool(b) == [t |-> "boolean", s |-> IF b THEN "true" ELSE "false", a |-> <<>>]

\* An object as a segment of a query key.
ObjSeg(data) == [t |-> "object", s |-> "", a |-> <<data>>]

\* [...filtersKey, x...] and [filtersKey + x, ...]
SpreadKey(form, filtersKey, tail) ==
    IF form = "service"
    THEN <<Str(KeyText(filtersKey) \o Head(tail).s)>> \o Tail(tail)
    ELSE [i \in 1..Len(filtersKey) |-> Str(filtersKey[i])] \o tail

VariantsKey(form, filtersKey) == SpreadKey(form, filtersKey, <<Str("variants")>>)

FiltersQueryKey(form, filtersKey, isReady) ==
    SpreadKey(form, filtersKey, <<Str("filters"), Bool(isReady), ObjSeg(initialFilters)>>)

\* [...filtersKey, filters.data] and [filtersKey, filters.data]
ValuesKey(form, filtersKey, data) ==
    IF form = "service" THEN <<Str(KeyText(filtersKey)), ObjSeg(data)>>
    ELSE [i \in 1..Len(filtersKey) |-> Str(filtersKey[i])] \o <<ObjSeg(data)>>

\* Mutant of InvalidationKey: the namespace alone.
InvalidationKeyNamespace(form, filtersKey) ==
    IF form = "service" THEN <<Str(KeyText(filtersKey))>>
    ELSE [i \in 1..Len(filtersKey) |-> Str(filtersKey[i])]

\* The key invalidateQueries is called with.
InvalidationKey(form, filtersKey) == SpreadKey(form, filtersKey, <<Str("filters")>>)

\* react-query's partial match of a query key against a filter key of
\* strings: the filter key is a prefix of the query key.
PartialMatchKey(queryKey, filterKey) ==
    /\ Len(filterKey) <= Len(queryKey)
    /\ \A i \in 1..Len(filterKey) : queryKey[i] = filterKey[i]

\* The keys hook i reads.
ReadKeys(i) ==
    LET inst == keyspace.hooks[i]
    IN  {VariantsKey(variant, inst.filtersKey),
         FiltersQueryKey(variant, inst.filtersKey, TRUE),
         ValuesKey(variant, inst.filtersKey, inst.data)}

InitKeys ==
    /\ variant \in Forms
    /\ props = [queryTransformer |-> FALSE, querySetter |-> FALSE,
                scrollAfterUpdateQuery |-> "undefined"]
    /\ router = [isReady |-> TRUE, asPath |-> Path(<<>>)]
    /\ store = Undefined
    /\ queries = [k \in BOOLEAN |-> NoQuery]
    /\ writes = <<>>
    /\ codec = CodecIdle
    /\ counter = CounterIdle
    /\ provider = ProviderIdle
    /\ reads = ReadsIdle
    /\ keyspace \in {[pc |-> "keys",
                      hooks |-> <<[filtersKey |-> ks[1], data |-> d1, mounted |-> FALSE],
                                  [filtersKey |-> ks[2], data |-> d2, mounted |-> FALSE]>>,
                      cache |-> {}] :
                        ks \in {p \in FiltersKeys \X FiltersKeys : p[1] # p[2]},
                        d1 \in {initialFilters, NewFilters}, d2 \in {NewFilters}}

\* Hook i renders: each of its reads takes the cache entry under its key,
\* building it if there is none.
KeysMount(i) ==
    /\ ~keyspace.hooks[i].mounted
    /\ LET present == {e.key : e \in keyspace.cache}
           joined  == {IF e.key \in ReadKeys(i) THEN [e EXCEPT !.readBy = @ \cup {i}] ELSE e :
                          e \in keyspace.cache}
           built   == {[key |-> k, readBy |-> {i}, builtBy |-> i, invalidatedBy |-> {}] :
                          k \in ReadKeys(i) \ present}
       IN  keyspace' = [keyspace EXCEPT !.hooks[i].mounted = TRUE, !.cache = joined \cup built]
    /\ UNCHANGED <<counter, provider, reads>>
    /\ UNCHANGED hook

\* A setFilters or resetFilters of hook i succeeds: invalidateQueries with
\* its prefix.
KeysInvalidate(i) ==
    /\ keyspace.hooks[i].mounted
    /\ LET filterKey == InvalidationKey(variant, keyspace.hooks[i].filtersKey)
       IN  keyspace' = [keyspace EXCEPT !.cache =
                          {IF PartialMatchKey(e.key, filterKey)
                           THEN [e EXCEPT !.invalidatedBy = @ \cup {i}] ELSE e :
                              e \in keyspace.cache}]
    /\ UNCHANGED <<counter, provider, reads>>
    /\ UNCHANGED hook

NextKeys == \E i \in 1..2 : KeysMount(i) \/ KeysInvalidate(i)

SpecKeys == InitKeys /\ [][NextKeys]_vars

\* C13: for two hooks that share a query client and have different
\* filtersKeys, no read of one uses a cache entry built by the other, and a
\* successful setFilters or resetFilters of one never invalidates a
\* variants, filters or data entry of the other, for every pair of distinct
\* keys, one being a prefix of the other or the other followed by "filters"
\* included.
C13_KeysIsolated ==
    \A e \in keyspace.cache :
        /\ e.readBy = {e.builtBy}
        /\ e.invalidatedBy \subseteq {e.builtBy}

(***************************************************************************)
(* Writes in flight at once: the router is ready from the first render,    *)
(* up to MaxInFlight writes are invoked, and every persistence call        *)
(* resolves with a FilterSet.                                              *)
(***************************************************************************)
\* The number of writes invoked next to one another.
MaxInFlight == 2

InitWrites ==
    /\ variant \in Forms
    /\ props \in PropsOf(variant)
    /\ router = [isReady |-> TRUE, asPath |-> Path(<<>>)]
    /\ store = Undefined
    /\ queries = [k \in BOOLEAN |->
                    IF k = ActiveKey(router) THEN BuildQuery(variant, router) ELSE NoQuery]
    /\ writes = <<>>
    /\ codec = CodecIdle
    /\ AuxIdle

NextWrites ==
    \/ \E data \in FilterArgs : SetFiltersMutate(data, MaxInFlight)
    \/ \E callback \in {"none", "callback"} : ResetFiltersMutate(callback, MaxInFlight)
    \/ \E i \in DOMAIN writes : \E data \in Echoes(writes[i].persisted) \ {Undefined} :
          PersistResolve(i, data)
    \/ FetchResolve(TRUE)
    \/ FetchReject(TRUE)

SpecWrites == InitWrites /\ [][NextWrites]_vars

\* The write whose persistence call resolved last.
LastResolved == CHOOSE i \in DOMAIN writes : \A j \in DOMAIN writes :
                    writes[j].resolvedAt <= writes[i].resolvedAt

\* Every success handler has finished.
AllFinished == writes # <<>> /\ \A i \in DOMAIN writes : writes[i].phase = "success"

MaxRenders == 8

\* The clients a caller passes; NoClient is the prop left out.
CallerClients == {[by |-> "caller", id |-> 1], [by |-> "caller", id |-> 2]}

\* new QueryClient(): the n-th client the provider constructs.
NewClient(n) == [by |-> "provider", id |-> n]

\* Mutant of MemoKept: the value is computed on every render.
MemoNeverKept(prov, queryClient) == FALSE

\* useMemo keeps its value when the provider has rendered before and the
\* dependency is the same.
MemoKept(prov, queryClient) == prov.renders > 0 /\ prov.deps = queryClient

InitProvider ==
    /\ HookIdle
    /\ counter = CounterIdle
    /\ keyspace = KeyspaceIdle
    /\ reads = ReadsIdle
    /\ provider = [ProviderIdle EXCEPT !.pc = "provider"]

\* The provider renders with the prop queryClient.
ProviderRender(queryClient) ==
    /\ provider.pc = "provider"
    /\ provider.renders < MaxRenders
    /\ LET kept  == MemoKept(provider, queryClient)
           fresh == ~kept /\ queryClient = NoClient
       IN  provider' = [provider EXCEPT
                          !.queryClient = queryClient,
                          !.renders = @ + 1,
                          !.deps = queryClient,
                          !.constructed = IF fresh THEN @ + 1 ELSE @,
                          !.client = IF kept THEN @
                                     ELSE IF queryClient # NoClient THEN queryClient
                                     ELSE NewClient(provider.constructed + 1),
                          !.passed = @ \/ queryClient # NoClient]
    /\ UNCHANGED <<counter, keyspace, reads>>
    /\ UNCHANGED hook

NextProvider == \E queryClient \in CallerClients \cup {NoClient} : ProviderRender(queryClient)

SpecProvider == InitProvider /\ [][NextProvider]_vars

\* C15: the provider supplies one client to its subtree: the caller's if
\* one is passed; if none is passed, a client it constructs, exactly one as
\* long as none has been passed, and the same instance on every later
\* render without a change of the prop; if the caller passes another
\* client, the supplied client becomes that one.
C15_OneClient ==
    /\ [](provider.renders > 0 =>
            /\ provider.queryClient # NoClient => provider.client = provider.queryClient
            /\ provider.queryClient = NoClient =>
                    provider.client = NewClient(provider.constructed)
            /\ ~provider.passed => provider.constructed = 1)
    /\ [][(provider.renders > 0 /\ provider'.queryClient = provider.queryClient) =>
            /\ provider'.client = provider.client
            /\ provider'.constructed = provider.constructed]_vars

\* The provider rendered without a client several times and then with the
\* caller's second client: one client was constructed, and the caller's is
\* supplied.
C15_Witness ==
    /\ provider.renders >= 4 /\ provider.constructed = 1
    /\ provider.queryClient = [by |-> "caller", id |-> 2]
    /\ provider.client = provider.queryClient

(***************************************************************************)
(* The three reads side by side.  The hook mounts on a location, with or   *)
(* without a getVariants and with a queryParser that may throw; the        *)
(* filters read settles with what the store holds; writes succeed and      *)
(* invalidate; the data read follows filters.data from key to key.         *)
(***************************************************************************)
\* The number of writes that succeed.
MaxChanges == 1

\* The FilterSets the writes persist.
FilterSets == {initialFilters, NewFilters}

\* The caller's getData: the data for params.
getData(params) == [k |-> "data", o |-> params.o]

\* The filtersKey of the hook.
CartKey == <<"cart">>

\* Mutant of ValuesArg: filters.data as it is.
ValuesArgRaw(data) == data

\* The argument of getData in the data read's query function.
ValuesArg(data) == Coalesce(data, initialFilters)

NoValues ==
    [exists |-> FALSE, status |-> "loading", data |-> Undefined, fetching |-> FALSE,
     arg |-> Undefined]

\* Mutant of ObserveValues: nothing is fetched.
ObserveValuesIdle(values, data) == values

\* The data read turns to the entry under [filtersKey, data]: a missing
\* entry is built and fetched, one that is there is stale and fetched
\* again unless a fetch of it is under way.
ObserveValues(values, data) ==
    [values EXCEPT ![data] =
        IF @.fetching THEN @
        ELSE [@ EXCEPT !.exists = TRUE, !.fetching = TRUE, !.arg = ValuesArg(data)]]

\* The entries of the variants and data reads an invalidateQueries with
\* filterKey matches.
MatchesVariants(filterKey) == PartialMatchKey(VariantsKey(variant, CartKey), filterKey)

\* Mutant of MatchesValues: the prefix matches the data read's entry.
MatchesValuesAlways(filterKey, data) == TRUE

MatchesValues(filterKey, data) == PartialMatchKey(ValuesKey(variant, CartKey, data), filterKey)

InitReads ==
    /\ variant \in Forms
    /\ props = [queryTransformer |-> FALSE, querySetter |-> FALSE,
                scrollAfterUpdateQuery |-> "undefined"]
    /\ router \in [isReady : BOOLEAN, asPath : InitialUrls]
    /\ store \in {Undefined, StoredFilters}
    /\ queries = [k \in BOOLEAN |-> NoQuery]
    /\ writes = <<>>
    /\ codec = CodecIdle
    /\ counter = CounterIdle
    /\ keyspace = KeyspaceIdle
    /\ provider = ProviderIdle
    /\ reads \in {[pc |-> "start", getVariants |-> g, queryParser |-> qp,
                   filters |-> [data |-> Undefined, status |-> "loading", fetching |-> FALSE],
                   variants |-> [data |-> "undefined", status |-> "loading",
                                 fetching |-> FALSE, fetches |-> 0],
                   values |-> [d \in CountInputs |-> NoValues],
                   changes |-> 0] :
                     g \in BOOLEAN, qp \in {"total", "throws"}}

\* The first render.  initialData of the filters read is evaluated in it:
\* a queryParser that throws on the URL query throws out of the render, and
\* nothing is mounted.
ReadsMount ==
    /\ reads.pc = "start"
    /\ LET parses == router.isReady /\ DOMAIN UrlQueries(variant, router.asPath) # {}
       IN  IF parses /\ reads.queryParser = "throws"
           THEN reads' = [reads EXCEPT !.pc = "thrown"]
           ELSE LET seed == InitialData(variant, router)
                IN  reads' = [reads EXCEPT
                                !.pc = "mounted",
                                !.filters = [data |-> seed,
                                             status |-> IF IsNullish(seed) THEN "loading"
                                                        ELSE "success",
                                             fetching |-> TRUE],
                                !.variants.fetching = TRUE,
                                !.variants.fetches = 1,
                                !.values = ObserveValues(@, seed)]
    /\ UNCHANGED <<counter, keyspace, provider>>
    /\ UNCHANGED hook

\* The router becomes ready: the filters read turns to the entry keyed by
\* the new isReady, whose initialData is evaluated in that render.
ReadsRouterReady ==
    /\ reads.pc = "mounted" /\ ~router.isReady
    /\ router' = [router EXCEPT !.isReady = TRUE]
    /\ LET next == [router EXCEPT !.isReady = TRUE]
           seed == InitialData(variant, next)
       IN  IF DOMAIN UrlQueries(variant, router.asPath) # {} /\ reads.queryParser = "throws"
           THEN reads' = [reads EXCEPT !.pc = "thrown"]
           ELSE reads' = [reads EXCEPT
                            !.filters = [data |-> seed, status |-> "success",
                                         fetching |-> TRUE],
                            !.values = IF seed = reads.filters.data THEN @
                                       ELSE ObserveValues(@, seed)]
    /\ UNCHANGED <<variant, props, store, queries, writes, codec>>
    /\ UNCHANGED <<counter, keyspace, provider>>

\* The fetch of the filters read resolves: filters.data is what the store
\* holds or initialFilters, and the data read turns to its key if the
\* value is another one.
ReadsFiltersResolve ==
    /\ reads.pc = "mounted" /\ reads.filters.fetching
    /\ LET data == FetchedFilters(store)
       IN  reads' = [reads EXCEPT
                       !.filters = [data |-> data, status |-> "success", fetching |-> FALSE],
                       !.values = IF data = reads.filters.data THEN @
                                  ELSE ObserveValues(@, data)]
    /\ UNCHANGED <<counter, keyspace, provider>>
    /\ UNCHANGED hook

\* getFiltersValues rejects.
ReadsFiltersReject ==
    /\ reads.pc = "mounted" /\ reads.filters.fetching
    /\ reads' = [reads EXCEPT !.filters.fetching = FALSE, !.filters.status = "error"]
    /\ UNCHANGED <<counter, keyspace, provider>>
    /\ UNCHANGED hook

\* A setFilters or resetFilters persists data and invalidates: the filters
\* read is fetched again, and so is every other observed entry the prefix
\* matches.
ReadsWriteSucceeds(data) ==
    /\ reads.pc = "mounted" /\ reads.changes < MaxChanges
    /\ store' = data
    /\ LET filterKey == InvalidationKey(variant, CartKey)
           current   == reads.filters.data
       IN  reads' = [reads EXCEPT
                       !.changes = @ + 1,
                       !.filters.fetching = TRUE,
                       !.variants.fetching = @ \/ MatchesVariants(filterKey),
                       !.variants.fetches =
                            IF MatchesVariants(filterKey) THEN @ + 1 ELSE @,
                       !.values = IF MatchesValues(filterKey, current)
                                  THEN [@ EXCEPT ![current].fetching = TRUE]
                                  ELSE @]
    /\ UNCHANGED <<variant, props, router, queries, writes, codec>>
    /\ UNCHANGED <<counter, keyspace, provider>>

\* The variants read's query function settles: getVariants' result, or
\* null without a getVariants.
VariantsResolve ==
    /\ reads.variants.fetching
    /\ reads' = [reads EXCEPT
                   !.variants.fetching = FALSE,
                   !.variants.status = "success",
                   !.variants.data = IF reads.getVariants THEN "variants" ELSE "null"]
    /\ UNCHANGED <<counter, keyspace, provider>>
    /\ UNCHANGED hook

\* getVariants rejects.
VariantsReject ==
    /\ reads.variants.fetching /\ reads.getVariants
    /\ reads' = [reads EXCEPT !.variants.fetching = FALSE, !.variants.status = "error"]
    /\ UNCHANGED <<counter, keyspace, provider>>
    /\ UNCHANGED hook

\* getData resolves for the entry under data.
ValuesResolve(data) ==
    /\ reads.values[data].fetching
    /\ reads' = [reads EXCEPT
                   !.values[data].fetching = FALSE,
                   !.values[data].status = "success",
                   !.values[data].data = getData(reads.values[data].arg)]
    /\ UNCHANGED <<counter, keyspace, provider>>
    /\ UNCHANGED hook

\* getData rejects for the entry under data.
ValuesReject(data) ==
    /\ reads.values[data].fetching
    /\ reads' = [reads EXCEPT !.values[data].fetching = FALSE,
                              !.values[data].status = "error"]
    /\ UNCHANGED <<counter, keyspace, provider>>
    /\ UNCHANGED hook

ValuesSettle == \E data \in CountInputs : ValuesResolve(data) \/ ValuesReject(data)

NextReads ==
    \/ ReadsMount
    \/ ReadsRouterReady
    \/ ReadsFiltersResolve
    \/ ReadsFiltersReject
    \/ \E data \in FilterSets : ReadsWriteSucceeds(data)
    \/ VariantsResolve
    \/ VariantsReject
    \/ ValuesSettle

SpecReads == InitReads /\ [][NextReads]_vars

\* The hook of filters_manager.tsx with a getVariants and a queryParser
\* that parses every query.
InitReadsFair ==
    /\ InitReads
    /\ variant = "tsx"
    /\ reads.getVariants /\ reads.queryParser = "total"

\* Every fetch of the data read settles.
SpecReadsFair == InitReadsFair /\ [][NextReads]_vars /\ WF_vars(ValuesSettle)

\* values as the hook returns it: the entry under the current filters.data.
ValuesRead == reads.values[reads.filters.data]

\* C16: the variants read resolves to null without a getVariants and to
\* getVariants' result with one, and it is fetched once, at mount: no
\* write, invalidation or change of filters.data fetches it again.
C16_VariantsOnce ==
    /\ reads.variants.status = "success" =>
          reads.variants.data = IF reads.getVariants THEN "variants" ELSE "null"
    /\ reads.variants.fetches <= 1
    /\ reads.pc = "mounted" => reads.variants.fetches = 1

\* A write succeeded and filters.data changed after the variants
\* settled.
C16_Witness ==
    /\ reads.pc = "mounted" /\ reads.changes = MaxChanges
    /\ reads.variants.status = "success" /\ reads.getVariants
    /\ reads.filters.status = "success" /\ ~reads.filters.fetching
    /\ reads.filters.data = NewFilters
    /\ reads.values[NewFilters].exists /\ reads.values[initialFilters].exists

\* The render in which initialData of the filters read parses the URL
\* query has happened.
ParsedUrlQuery ==
    /\ reads.pc # "start"
    /\ router.isReady
    /\ DOMAIN UrlQueries(variant, router.asPath) # {}

\* C17: a queryParser that throws on the URL query is reported as the error
\* state of the filters read, and no failure is thrown out of the hook's
\* render.
C17_FailuresAsErrorState ==
    /\ reads.pc # "thrown"
    /\ ParsedUrlQuery /\ reads.queryParser = "throws" => reads.filters.status = "error"

\* C20: every call of getData receives the filters.data of its entry's key,
\* or initialFilters under the key of a filters read without a value,
\* never an absent FilterSet; and the key of the data read is the namespace
\* followed by filters.data, so that equal filters have one entry and
\* different filters different ones.
C20_GetDataArgument ==
    /\ \A data \in CountInputs :
          reads.values[data].exists =>
             /\ ~IsNullish(reads.values[data].arg)
             /\ reads.values[data].arg = IF IsNullish(data) THEN initialFilters ELSE data
             /\ reads.values[data].status = "success" =>
                   reads.values[data].data = getData(reads.values[data].arg)
    /\ reads.pc = "mounted" => reads.values[reads.filters.data].exists
    /\ \A d1, d2 \in CountInputs :
          ValuesKey(variant, CartKey, d1) = ValuesKey(variant, CartKey, d2) <=> d1 = d2

\* getData was called while the filters read had no value, and again for
\* the filters a write persisted.
C20_Witness ==
    /\ reads.values[Undefined].status = "success"
    /\ reads.filters.data = NewFilters
    /\ reads.values[NewFilters].status = "success"

\* filters.data is F and the data read has no result for it.
Awaited(F) ==
    /\ reads.pc = "mounted"
    /\ reads.filters.data = F
    /\ reads.values[F].status # "success"

\* getData was called with F and the entry under F holds its outcome: the
\* data it resolved with, or its rejection.
EntryHolds(F) ==
    /\ reads.values[F].exists /\ reads.values[F].arg = F
    /\ \/ reads.values[F].status = "success" /\ reads.values[F].data = getData(F)
       \/ reads.values[F].status = "error"

\* values as the hook returns it holds getData(F)'s outcome.
ReadHolds(F) == reads.filters.data = F /\ EntryHolds(F)

\* C19, as stated: whenever filters.data is an F the data read has no
\* result for, the data read as the hook returns it eventually holds
\* getData(F)'s outcome.
C19_ReadEventuallyHolds ==
    \A F \in CountInputs \ {Undefined} : Awaited(F) ~> ReadHolds(F)

\* C19, amended: getData is called with F and the entry under F eventually
\* holds its outcome; the data read as the hook returns it holds it then
\* unless filters.data has changed again.
C19_EntryEventuallyHolds ==
    \A F \in CountInputs \ {Undefined} :
        Awaited(F) ~> (EntryHolds(F) /\ (ReadHolds(F) \/ reads.filters.data # F))

\* filters.data changed to what a write persisted, and the data read holds
\* getData's result for it.
C19_Witness ==
    /\ reads.changes > 0
    /\ ReadHolds(NewFilters)
    /\ ValuesRead.status = "success"
    /\ ~reads.filters.fetching

(***************************************************************************)
(* The key of the filters read over the renders.  The caller passes an     *)
(* initialFilters object on every render: the same object, a new one with  *)
(* the same content, or one with other content; the router becomes ready.  *)
(***************************************************************************)
\* The number of renders with another initialFilters object.
MaxInitialRenders == 3

\* The number of objects the caller builds.
MaxObjects == 2

\* The initialFilters objects: an identity and a content.
InitialObjects ==
    {[id |-> i, content |-> c] : i \in 1..MaxObjects, c \in {initialFilters, NewFilters}}

\* Mutant of FiltersReadKey: initialFilters is no part of the key.
FiltersReadKeyNoInitial(form, filtersKey, isReady, initial) ==
    SpreadKey(form, filtersKey, <<Str("filters"), Bool(isReady)>>)

\* [...filtersKey, 'filters', router.isReady, initialFilters] as the cache
\* knows it: entries are found by the key's hash, the JSON text of the key,
\* in which an object is its content.
FiltersReadKey(form, filtersKey, isReady, initial) ==
    SpreadKey(form, filtersKey, <<Str("filters"), Bool(isReady), ObjSeg(initial.content)>>)

\* The key of the filters read in the current render.
ObservedKey == FiltersReadKey(variant, CartKey, router.isReady, keyspace.initialFilters)

\* The filters read turns to the entry under key: it is built if missing,
\* and fetched, as new or as stale, unless a fetch of it is under way.
ObserveFilters(ks, key) ==
    [ks EXCEPT !.cache = @ \cup {key},
               !.fetching = @ \cup {key},
               !.calls = IF key \in ks.fetching THEN @ ELSE @ + 1]

InitInitial ==
    /\ variant \in Forms
    /\ props = [queryTransformer |-> FALSE, querySetter |-> FALSE,
                scrollAfterUpdateQuery |-> "undefined"]
    /\ router \in [isReady : BOOLEAN, asPath : {Path(<<>>)}]
    /\ store = Undefined
    /\ queries = [k \in BOOLEAN |-> NoQuery]
    /\ writes = <<>>
    /\ codec = CodecIdle
    /\ counter = CounterIdle
    /\ provider = ProviderIdle
    /\ reads = ReadsIdle
    /\ \E initial \in InitialObjects :
          LET key == FiltersReadKey(variant, CartKey, router.isReady, initial)
          IN  keyspace = [pc |-> "initial", hooks |-> <<>>, initialFilters |-> initial,
                          cache |-> {key}, fetching |-> {key}, calls |-> 1,
                          renders |-> 0, last |-> "mount"]

\* A render with another initialFilters object, or with the same object
\* whose content was changed.
InitialRender(initial) ==
    /\ keyspace.pc = "initial" /\ keyspace.renders < MaxInitialRenders
    /\ initial # keyspace.initialFilters
    /\ LET key  == FiltersReadKey(variant, CartKey, router.isReady, initial)
           next == [keyspace EXCEPT
                      !.initialFilters = initial,
                      !.renders = @ + 1,
                      !.last = IF initial.content = keyspace.initialFilters.content
                               THEN "identity" ELSE "content"]
       IN  keyspace' = IF key = ObservedKey THEN next ELSE ObserveFilters(next, key)
    /\ UNCHANGED <<counter, provider, reads>>
    /\ UNCHANGED hook

\* The router becomes ready.
InitialRouterReady ==
    /\ keyspace.pc = "initial" /\ ~router.isReady
    /\ router' = [router EXCEPT !.isReady = TRUE]
    /\ LET key == FiltersReadKey(variant, CartKey, TRUE, keyspace.initialFilters)
       IN  keyspace' = IF key = ObservedKey THEN [keyspace EXCEPT !.last = "ready"]
                       ELSE ObserveFilters([keyspace EXCEPT !.last = "ready"], key)
    /\ UNCHANGED <<variant, props, store, queries, writes, codec>>
    /\ UNCHANGED <<counter, provider, reads>>

\* getFiltersValues settles for the entry under key.
InitialFetchSettle(key) ==
    /\ keyspace.pc = "initial" /\ key \in keyspace.fetching
    /\ keyspace' = [keyspace EXCEPT !.fetching = @ \ {key}, !.last = "settle"]
    /\ UNCHANGED <<counter, provider, reads>>
    /\ UNCHANGED hook

NextInitial ==
    \/ \E initial \in InitialObjects : InitialRender(initial)
    \/ InitialRouterReady
    \/ \E key \in keyspace.fetching : InitialFetchSettle(key)

SpecInitial == InitInitial /\ [][NextInitial]_vars

\* The filters read turned to another key in this step and that key's
\* entry is fetched: by a new call of getFiltersValues, or by the one
\* under way for it.
ReResolved ==
    /\ ObservedKey' # ObservedKey
    /\ ObservedKey' \in keyspace'.fetching
    /\ ObservedKey' \notin keyspace.fetching => keyspace'.calls = keyspace.calls + 1

\* C21, as stated: a render with an initialFilters of another identity,
\* also one of the same content, and the router's becoming ready
\* re-resolve the filters read.
C21_IdentityIsKeyChange ==
    [][(\/ keyspace'.initialFilters.id # keyspace.initialFilters.id
        \/ router'.isReady # router.isReady) => ReResolved]_vars

\* C21, amended: a render with an initialFilters of other content and the
\* router's becoming ready re-resolve the filters read; a render with a
\* new object of the same content leaves the key and the fetches as they
\* are.
C21_ContentIsKeyChange ==
    [][/\ (\/ keyspace'.initialFilters.content # keyspace.initialFilters.content
           \/ router'.isReady # router.isReady) => ReResolved
       /\ (/\ keyspace'.initialFilters # keyspace.initialFilters
           /\ keyspace'.initialFilters.content = keyspace.initialFilters.content)
          => /\ ObservedKey' = ObservedKey
             /\ keyspace'.calls = keyspace.calls
             /\ keyspace'.fetching = keyspace.fetching]_vars

\* The last render had an initialFilters of other content, with a ready
\* router, and getFiltersValues was called again.
C21_Witness ==
    /\ keyspace.pc = "initial"
    /\ keyspace.last = "content"
    /\ router.isReady
    /\ keyspace.calls >= 2
    /\ Cardinality(keyspace.cache) >= 2

\* The URL was replaced, or the query setter called, for write i.
ReflectedFor(i) == writes[i].reflect.outcome \in {"replace", "querySetter"}

\* The refetch the invalidation of write i awaits is under way: the entry
\* is being fetched and no later invalidation has taken the fetch over.
InvalidationPending(i) ==
    /\ writes[i].phase \in {"persisting", "invalidating"}
    /\ writes[i].phase = "invalidating" =>
          queries[writes[i].waitsFor].fetchStatus = "fetching"

\* No write's success handler is at its await in a state in which the
\* refetch has settled.
AwaitsSettle ==
    \A i \in DOMAIN writes :
        writes[i].phase = "invalidating" =>
            queries[writes[i].waitsFor].fetchStatus = "fetching"

GetDataCalled(data) == ~reads.values[data].fetching /\ reads'.values[data].fetching

\* C23: a write that succeeds invalidates no entry of the data read, and
\* getData is called only at mount and when filters.data changes: not by
\* the write, and not by the filters read's re-resolving to equal filters.
C23_DataEntriesLeftValid ==
    [][/\ reads'.changes # reads.changes =>
             /\ reads'.values = reads.values
             /\ reads'.filters.fetching
             /\ ~MatchesValues(InvalidationKey(variant, CartKey), reads.filters.data)
       /\ \A data \in CountInputs :
             GetDataCalled(data) =>
                 \/ reads.pc = "start"
                 \/ reads'.filters.data # reads.filters.data /\ data = reads'.filters.data]_vars

\* A write persisted the filters the hook had, the filters read re-resolved
\* to them, and the data read has the one entry it had, settled.
C23_Witness ==
    /\ reads.pc = "mounted" /\ reads.changes > 0
    /\ store = initialFilters
    /\ reads.filters.data = initialFilters
    /\ reads.filters.status = "success" /\ ~reads.filters.fetching
    /\ reads.values[initialFilters].status = "success"
    /\ \A data \in CountInputs :
          /\ ~reads.values[data].fetching
          /\ data # initialFilters => ~reads.values[data].exists

====
